---- MODULE Spec2Model ----
(***************************************************************************)
(* Document locks of compdb.contrib.concurrency: DocumentLock and          *)
(* DocumentRLock acting on one document of a collection through            *)
(* find_and_modify, the store's atomic conditional update.                 *)
(*                                                                         *)
(* A document is a function from the names of the fields it has to their   *)
(* values; a field that is absent is not in the function's domain.  The    *)
(* collection maps the ids of the documents that exist to the documents.   *)
(***************************************************************************)
EXTENDS Integers, Sequences, FiniteSets, TLC

\* ---------------------------------------------------------------- bounds

NumProcs == 2
MaxDepth == 2

\* ------------------------------------------------------ program constants

TIMEOUT_MAX == 100000
LOCK_ID_FIELD == "_lock_id"
LOCK_COUNTER_FIELD == "_lock_counter"

\* The one document the lock objects are constructed for, and a field of it
\* that no lock operation names.
DocId == "doc"
PAYLOAD_FIELD == "parameters"

Procs == 1 .. NumProcs
\* A lock object's uuid4 token is the object's number.
Objs == 1 .. NumProcs
\* timeout arguments: unbounded, a negative value other than -1, a finite
\* wait, and a value above the maximum.
Timeouts == {-1, -2, 1, TIMEOUT_MAX + 1}

VARIABLES
    coll,       \* the collection: document id -> document
    cls,        \* class of the lock objects: "Lock" or "RLock"
    objOf,      \* the lock object each caller uses
    cfg,        \* per lock object: _blocking and _timeout of the constructor
    localLock,  \* per lock object: self._lock is held
    pc,         \* per caller: where it is
    blk,        \* per caller: blocking of its current (or last) acquire
    tmo,        \* per caller: timeout of its current acquire
    got,        \* per caller: the result acquire_timeout yielded
    thr,        \* per caller: state of the try_to_acquire thread
    stop,       \* per caller: stop_event
    scope,      \* per caller: "none", "enter", "body", "exit"
    exc,        \* per caller: the body of its scope raised
    ret,        \* per caller: how its last call ended
    \* history variables, read by the properties only
    holders,    \* objects whose acquire returned true and that have not called release since
    ownedBefore,\* per caller: the document had the caller's token when acquire was called
    freeSeen,   \* per caller: during its current (or last) acquire the lock was at some time not held by another token
    contended,  \* per caller: another token held the document when its current acquire, or its last one if that returned true, was called
    tr,         \* per caller: acquisitions and releases of its current acquire^k release^k run
    net,        \* per caller: acquires that returned true minus releases that returned, within NetFloor .. NetCeil
    \* a job (compdb.contrib.job.OnlineJob) on the document: each caller has
    \* a job object of its own for the one job id
    jpc,        \* per caller: the method of its job object it is in, or was in last
    jerr,       \* per caller: the body of its job scope raised
    registered, \* per caller: _registered_flag
    pulse,      \* per caller: self._pulse and its worker: "none", "wait", "done", "crashed"
    pstop,      \* per caller: _pulse_stop_event is set
    nOpen,      \* per caller: calls of open() made
    jobData,    \* the job's directories, storage and documents exist
    \* history variables of the job, read by the properties only
    nUnset,     \* per caller: updates made that unset its pulse entry
    stage2      \* per caller: _close_stage_two ran in its current (or last) close or scope exit

vars == <<coll, cls, objOf, cfg, localLock, pc, blk, tmo, got, thr, stop, scope,
          exc, ret, holders, ownedBefore, freeSeen, contended, tr, net,
          jpc, jerr, registered, pulse, pstop, nOpen, jobData, nUnset, stage2>>

\* the variables of the job objects, which no method of a lock touches
jvars == <<jpc, jerr, registered, pulse, pstop, nOpen, jobData, nUnset, stage2>>

\* ------------------------------------------------------- document updates

\* '$unset': remove the fields fs from document d (absent ones are ignored).
Unset(d, fs) == [f \in DOMAIN d \ fs |-> d[f]]

\* '$set': field f of document d becomes v.
Set(d, f, v) == [g \in DOMAIN d \cup {f} |-> IF g = f THEN v ELSE d[g]]

\* '$inc': field f of d is increased by n; an absent field counts as 0.
Inc(d, f, n) == Set(d, f, (IF f \in DOMAIN d THEN d[f] ELSE 0) + n)

\* --------------------------------------------- the lock's conditional updates

Exists(c) == DocId \in DOMAIN c
HasOwner(c) == Exists(c) /\ LOCK_ID_FIELD \in DOMAIN c[DocId]
OwnedBy(c, t) == HasOwner(c) /\ c[DocId][LOCK_ID_FIELD] = t
HeldByOther(c, t) == HasOwner(c) /\ c[DocId][LOCK_ID_FIELD] # t
HasCounter(c) == Exists(c) /\ LOCK_COUNTER_FIELD \in DOMAIN c[DocId]

\* find_and_modify without upsert: the update is applied to the document iff
\* the query matches it; the caller gets None iff it does not.
find_and_modify(c, match, update) == IF match THEN [c EXCEPT ![DocId] = update] ELSE c

\* A query of _acquire that forgets to ask for an absent owner token.
Lock_acquire_query_any(c, t) == Exists(c)

\* DocumentLock._acquire
Lock_acquire_query(c, t) == Exists(c) /\ LOCK_ID_FIELD \notin DOMAIN c[DocId]
Lock_acquire_update(c, t) == Set(c[DocId], LOCK_ID_FIELD, t)

\* A query of _release that forgets to ask for the caller's own token.
Lock_release_query_any(c, t) == Exists(c) /\ HasOwner(c)

\* DocumentLock._release
Lock_release_query(c, t) == Exists(c) /\ OwnedBy(c, t)
Lock_release_update(c, t) == Unset(c[DocId], {LOCK_ID_FIELD})

\* A query of the reentrant _acquire that matches whatever the owner token is.
RLock_acquire_query_any(c, t) == Exists(c)

\* DocumentRLock._acquire
RLock_acquire_query(c, t) ==
    Exists(c) /\ (LOCK_ID_FIELD \notin DOMAIN c[DocId] \/ c[DocId][LOCK_ID_FIELD] = t)
RLock_acquire_update(c, t) == Inc(Set(c[DocId], LOCK_ID_FIELD, t), LOCK_COUNTER_FIELD, 1)

\* DocumentRLock._release, the full release
RLock_full_query(c, t) ==
    OwnedBy(c, t) /\ HasCounter(c) /\ c[DocId][LOCK_COUNTER_FIELD] = 1
RLock_full_update(c, t) == Unset(c[DocId], {LOCK_ID_FIELD, "lock_level"})

\* DocumentRLock._release, the partial release
RLock_partial_query(c, t) == OwnedBy(c, t)
RLock_partial_update(c, t) == Inc(c[DocId], LOCK_COUNTER_FIELD, -1)

\* self._acquire() of the class in use
AcquireQuery(c, t) ==
    IF cls = "Lock" THEN Lock_acquire_query(c, t) ELSE RLock_acquire_query(c, t)
AcquireUpdate(c, t) ==
    IF cls = "Lock" THEN Lock_acquire_update(c, t) ELSE RLock_acquire_update(c, t)

\* The depth counter is kept within the model's bound: an acquisition that
\* would raise it further is not taken.
WithinDepth(c) ==
    cls = "RLock" /\ HasCounter(c) => c[DocId][LOCK_COUNTER_FIELD] < MaxDepth

\* ------------------------------------------------------------------ state

\* blocking and timeout a lock object may be constructed with
Cfgs == {<<TRUE, -1>>, <<TRUE, 1>>, <<FALSE, -1>>}

AcqPcs == {"local", "try1", "join", "join2"}
Alive(t) == t \in {"check", "try"}

\* OnlineJob.__init__: nothing registered, no pulse, nothing opened
JobInitVars ==
    /\ jpc = [p \in Procs |-> "new"]
    /\ jerr = [p \in Procs |-> FALSE]
    /\ registered = [p \in Procs |-> FALSE]
    /\ pulse = [p \in Procs |-> "none"]
    /\ pstop = [p \in Procs |-> FALSE]
    /\ nOpen = [p \in Procs |-> 0]
    /\ jobData = FALSE
    /\ nUnset = [p \in Procs |-> 0]
    /\ stage2 = [p \in Procs |-> FALSE]

Init ==
    /\ coll = [i \in {DocId} |-> [f \in {PAYLOAD_FIELD} |-> 0]]
    /\ cls \in {"Lock", "RLock"}
    /\ objOf = [p \in Procs |-> p]
    /\ cfg \in {[o \in Objs |-> c] : c \in Cfgs}
    /\ localLock = [o \in Objs |-> FALSE]
    /\ pc = [p \in Procs |-> "idle"]
    /\ blk = [p \in Procs |-> TRUE]
    /\ tmo = [p \in Procs |-> -1]
    /\ got = [p \in Procs |-> FALSE]
    /\ thr = [p \in Procs |-> "none"]
    /\ stop = [p \in Procs |-> FALSE]
    /\ scope = [p \in Procs |-> "none"]
    /\ exc = [p \in Procs |-> FALSE]
    /\ ret = [p \in Procs |-> "none"]
    /\ holders = {}
    /\ ownedBefore = [p \in Procs |-> FALSE]
    /\ freeSeen = [p \in Procs |-> FALSE]
    /\ contended = [p \in Procs |-> FALSE]
    /\ tr = [p \in Procs |-> <<0, 0>>]
    /\ net = [p \in Procs |-> 0]
    /\ JobInitVars

\* ------------------------------------------------------- history updates

\* freeSeen once the collection has become c2: callers inside acquire note
\* whether the lock is not held by another token.
Observe(c2) ==
    [q \in Procs |->
        IF pc[q] \in AcqPcs THEN freeSeen[q] \/ ~HeldByOther(c2, objOf[q]) ELSE freeSeen[q]]

\* For the reentrant lock, tr[p] is <<k, j>> while p has made k acquisitions and then j < k
\* releases, starting with the document unlocked; <<0, 1>> when the k-th of
\* the releases has just returned; <<0, 0>> otherwise.
TrAcquired(p, c) ==
    IF cls # "RLock" THEN <<0, 0>>
    ELSE IF ~HasOwner(c) THEN <<1, 0>>
    ELSE IF tr[p][1] >= 1 /\ tr[p][2] = 0 THEN <<tr[p][1] + 1, 0>>
    ELSE <<0, 0>>

TrReleased(p) ==
    IF tr[p][1] = 0 THEN <<0, 0>>
    ELSE IF tr[p][2] + 1 = tr[p][1] THEN <<0, 1>>
    ELSE <<tr[p][1], tr[p][2] + 1>>

\* net[p] counts within NetFloor .. NetCeil; a count that has reached an end
\* of the range stays there.
MaxUnder == 1
NetFloor == 0 - MaxUnder
NetCeil == MaxDepth + 1
NetPlus(n) == IF n \in {NetFloor, NetCeil} THEN n ELSE n + 1
NetMinus(n) == IF n \in {NetFloor, NetCeil} THEN n ELSE n - 1
\* After a force_release or a store failure the calls are not counted any
\* more.
NetDropped == [p \in Procs |-> NetFloor]

\* ---------------------------------------------------------------- acquire

\* A body that takes the retrying branch whatever blocking is.
BodyStarts_retry(p, b) ==
    /\ pc' = [pc EXCEPT ![p] = "join"]
    /\ thr' = [thr EXCEPT ![p] = "check"]
    /\ stop' = [stop EXCEPT ![p] = FALSE]

\* The body of the with statement in acquire starts: a blocking call starts
\* the try_to_acquire thread and joins it, another makes its one attempt.
BodyStarts(p, b) ==
    /\ pc' = [pc EXCEPT ![p] = IF b THEN "join" ELSE "try1"]
    /\ thr' = [thr EXCEPT ![p] = IF b THEN "check" ELSE thr[p]]
    /\ stop' = [stop EXCEPT ![p] = FALSE]

\* Argument checks without the one against TIMEOUT_MAX.
ArgError_unbounded(b, t) ==
    IF ~b /\ t # -1 THEN "ValueError"
    ELSE IF t < 0 /\ t # -1 THEN "ValueError"
    ELSE "none"

\* The exception the argument checks of acquire raise, and then those
\* threading.Lock.acquire makes of the arguments acquire_timeout passes on to
\* it (a timeout below 0 that is not -1); "none" when the arguments pass.
ArgError(b, t) ==
    IF ~b /\ t # -1 THEN "ValueError"
    ELSE IF t > TIMEOUT_MAX THEN "OverflowError"
    ELSE IF t < 0 /\ t # -1 THEN "ValueError"
    ELSE "none"

\* DocumentBaseLock.acquire up to the body of its with statement: the
\* argument checks, those threading.Lock.acquire makes of the arguments
\* passed on to it, and acquire_timeout's self._lock.acquire(blocking, timeout),
\* which takes a free local lock, fails at once when not blocking, and waits
\* otherwise.  sc: the call is made by __enter__.
AcquireBegin(p, b, t, sc) ==
    LET o == objOf[p]
    IN
    /\ thr[p] = "none"
    /\ WithinDepth(coll)
    /\ IF ArgError(b, t) # "none"
       THEN /\ ret' = [ret EXCEPT ![p] = ArgError(b, t)]
            /\ UNCHANGED <<localLock, pc, blk, tmo, got, thr, stop, scope,
                           ownedBefore, freeSeen, contended>>
       ELSE /\ ret' = [ret EXCEPT ![p] = "none"]
            /\ blk' = [blk EXCEPT ![p] = b]
            /\ tmo' = [tmo EXCEPT ![p] = t]
            /\ scope' = [scope EXCEPT ![p] = sc]
            /\ ownedBefore' = [ownedBefore EXCEPT ![p] = OwnedBy(coll, o)]
            /\ freeSeen' = [freeSeen EXCEPT ![p] = ~HeldByOther(coll, o)]
            /\ contended' = [contended EXCEPT ![p] = HeldByOther(coll, o)]
            /\ IF ~localLock[o]
               THEN /\ localLock' = [localLock EXCEPT ![o] = TRUE]
                    /\ got' = [got EXCEPT ![p] = TRUE]
                    /\ BodyStarts(p, b)
               ELSE IF ~b
               THEN /\ got' = [got EXCEPT ![p] = FALSE]
                    /\ BodyStarts(p, b)
                    /\ UNCHANGED localLock
               ELSE /\ pc' = [pc EXCEPT ![p] = "local"]
                    /\ UNCHANGED <<localLock, got, thr, stop>>
    /\ UNCHANGED <<coll, cls, objOf, cfg, exc, holders, tr, net>>

\* lock.acquire(blocking, timeout) called from outside a scope
acquire(p, b, t) ==
    /\ pc[p] = "idle"
    /\ AcquireBegin(p, b, t, "none")
    /\ UNCHANGED jvars

\* DocumentBaseLock.__enter__: acquire with the constructor's arguments
enter(p) ==
    /\ pc[p] = "idle"
    /\ AcquireBegin(p, cfg[objOf[p]][1], cfg[objOf[p]][2], "enter")
    /\ UNCHANGED jvars

\* acquire_timeout: the waiting self._lock.acquire(True, timeout) returns True
acquire_timeout_got(p) ==
    /\ pc[p] = "local"
    /\ ~localLock[objOf[p]]
    /\ localLock' = [localLock EXCEPT ![objOf[p]] = TRUE]
    /\ got' = [got EXCEPT ![p] = TRUE]
    /\ BodyStarts(p, TRUE)
    /\ UNCHANGED <<coll, cls, objOf, cfg, blk, tmo, scope, exc, ret, holders,
                   ownedBefore, freeSeen, contended, tr, net>>
    /\ UNCHANGED jvars

\* acquire_timeout: the waiting self._lock.acquire(True, timeout) returns
\* False after the timeout; the body of the with statement runs all the same.
acquire_timeout_failed(p) ==
    /\ pc[p] = "local"
    /\ localLock[objOf[p]]
    /\ tmo[p] # -1
    /\ got' = [got EXCEPT ![p] = FALSE]
    /\ BodyStarts(p, TRUE)
    /\ UNCHANGED <<coll, cls, objOf, cfg, localLock, blk, tmo, scope, exc, ret, holders,
                   ownedBefore, freeSeen, contended, tr, net>>
    /\ UNCHANGED jvars

\* The DocumentLockError of __enter__ and that of _release
LockErrorEnter == "DocumentLockError: Failed to lock document"
LockErrorRelease == "DocumentLockError: Failed to remove lock from document"

\* What __enter__ makes of acquire's result r: it raises DocumentLockError
\* when r is false; a direct call returns r.
Outcome(sc, r) ==
    IF r THEN "True" ELSE IF sc = "enter" THEN LockErrorEnter ELSE "False"

\* acquire returns r: acquire_timeout releases the local lock if it had got it.
AcquireReturns(p, r) ==
    /\ localLock' = IF got[p] THEN [localLock EXCEPT ![objOf[p]] = FALSE] ELSE localLock
    /\ got' = [got EXCEPT ![p] = FALSE]
    /\ stop' = [stop EXCEPT ![p] = IF Alive(thr'[p]) THEN stop[p] ELSE FALSE]
    /\ holders' = IF r THEN holders \cup {objOf[p]} ELSE holders
    /\ pc' = [pc EXCEPT ![p] = IF scope[p] = "enter" /\ r THEN "body" ELSE "idle"]
    /\ scope' = [scope EXCEPT ![p] = IF scope[p] = "enter" /\ r THEN "body" ELSE "none"]
    /\ ret' = [ret EXCEPT ![p] = Outcome(scope[p], r)]
    /\ ownedBefore' = [ownedBefore EXCEPT ![p] = FALSE]
    /\ contended' = [contended EXCEPT ![p] = r /\ contended[p]]
    /\ net' = [net EXCEPT ![p] = IF r THEN NetPlus(@) ELSE @]
    /\ tmo' = [tmo EXCEPT ![p] = -1]
    /\ UNCHANGED <<cls, objOf, cfg, blk, exc>>

\* acquire(blocking=False): return self._acquire()
try_once(p) ==
    /\ pc[p] = "try1"
    /\ LET t == objOf[p]
           m == AcquireQuery(coll, t)
       IN /\ m => WithinDepth(coll)
          /\ coll' = find_and_modify(coll, m, AcquireUpdate(coll, t))
          /\ tr' = [tr EXCEPT ![p] = IF m THEN TrAcquired(p, coll) ELSE tr[p]]
          /\ freeSeen' = Observe(coll')
          /\ thr' = thr
          /\ AcquireReturns(p, m)
    /\ UNCHANGED jvars

\* try_to_acquire: while(not stop_event.is_set())
thread_check(p) ==
    /\ thr[p] = "check"
    /\ thr' = [thr EXCEPT ![p] = IF stop[p] THEN "stopped" ELSE "try"]
    /\ UNCHANGED <<coll, cls, objOf, cfg, localLock, pc, blk, tmo, got, stop, scope, exc,
                   ret, holders, ownedBefore, freeSeen, contended, tr, net>>
    /\ UNCHANGED jvars

\* A try_to_acquire that makes one attempt and ends, without the while loop.
thread_try_single(p) ==
    /\ thr[p] = "try"
    /\ LET t == objOf[p]
           m == AcquireQuery(coll, t)
       IN /\ m => WithinDepth(coll)
          /\ coll' = find_and_modify(coll, m, AcquireUpdate(coll, t))
          /\ tr' = [tr EXCEPT ![p] = IF m THEN TrAcquired(p, coll) ELSE tr[p]]
          /\ freeSeen' = Observe(coll')
          /\ contended' = contended
          /\ net' = net
          /\ thr' = [thr EXCEPT ![p] = IF m THEN "acquired" ELSE "stopped"]
    /\ UNCHANGED <<cls, objOf, cfg, localLock, pc, blk, tmo, got, stop, scope, exc,
                   ret, holders, ownedBefore>>
    /\ UNCHANGED jvars

\* try_to_acquire: if self._acquire(): return True; else stop_event.wait(...)
thread_try(p) ==
    /\ thr[p] = "try"
    /\ LET t == objOf[p]
           m == AcquireQuery(coll, t)
       IN /\ m => WithinDepth(coll)
          /\ coll' = find_and_modify(coll, m, AcquireUpdate(coll, t))
          /\ tr' = [tr EXCEPT ![p] = IF m THEN TrAcquired(p, coll) ELSE tr[p]]
          /\ freeSeen' = Observe(coll')
          /\ contended' = contended
          /\ net' = net
          /\ thr' = [thr EXCEPT ![p] = IF m THEN "acquired" ELSE "check"]
    /\ UNCHANGED <<cls, objOf, cfg, localLock, pc, blk, tmo, got, stop, scope, exc,
                   ret, holders, ownedBefore>>
    /\ UNCHANGED jvars

\* t_acq.join(...) has returned and t_acq.is_alive() is false: return True
join_done(p) ==
    /\ pc[p] = "join"
    /\ ~Alive(thr[p])
    /\ thr' = [thr EXCEPT ![p] = "none"]
    /\ AcquireReturns(p, TRUE)
    /\ UNCHANGED <<coll, freeSeen, tr>>
    /\ UNCHANGED jvars

\* A timeout that returns False with neither stop_event.set() nor the
\* second join.
join_timeout_nojoin(p) ==
    /\ pc[p] = "join"
    /\ tmo[p] # -1
    /\ Alive(thr[p])
    /\ thr' = thr
    /\ AcquireReturns(p, FALSE)
    /\ UNCHANGED <<coll, freeSeen, tr>>
    /\ UNCHANGED jvars

\* t_acq.join(timeout) has returned after the timeout and t_acq.is_alive()
\* is true: stop_event.set(), then t_acq.join()
join_timeout(p) ==
    /\ pc[p] = "join"
    /\ tmo[p] # -1
    /\ Alive(thr[p])
    /\ stop' = [stop EXCEPT ![p] = TRUE]
    /\ pc' = [pc EXCEPT ![p] = "join2"]
    /\ UNCHANGED <<coll, cls, objOf, cfg, localLock, blk, tmo, got, thr, scope, exc,
                   ret, holders, ownedBefore, freeSeen, contended, tr, net>>
    /\ UNCHANGED jvars

\* the second t_acq.join() has returned: return False
join_stopped(p) ==
    /\ pc[p] = "join2"
    /\ ~Alive(thr[p])
    /\ thr' = [thr EXCEPT ![p] = "none"]
    /\ AcquireReturns(p, FALSE)
    /\ tr' = [tr EXCEPT ![p] = IF thr[p] = "acquired" THEN <<0, 0>> ELSE tr[p]]
    /\ UNCHANGED <<coll, freeSeen>>
    /\ UNCHANGED jvars

\* ---------------------------------------------------------------- release

\* release returns, or raises DocumentLockError; out of __exit__ (sc) the
\* exception of the body (e), if any, goes on.
ReleaseReturns(p, raised, sc, e) ==
    /\ pc' = [pc EXCEPT ![p] = "idle"]
    /\ scope' = [scope EXCEPT ![p] = "none"]
    /\ exc' = [exc EXCEPT ![p] = FALSE]
    /\ ret' = [ret EXCEPT ![p] =
                 IF raised THEN LockErrorRelease ELSE IF sc /\ e THEN "BodyError" ELSE "ok"]
    /\ tr' = [tr EXCEPT ![p] = IF raised THEN <<0, 0>> ELSE TrReleased(p)]
    /\ net' = [net EXCEPT ![p] = IF raised THEN @ ELSE NetMinus(@)]

\* self._release(): DocumentLock._release as a whole, DocumentRLock._release
\* up to its first find_and_modify, the full release.
ReleaseBegin(p, sc, e) ==
    LET t == objOf[p]
        m == IF cls = "Lock" THEN Lock_release_query(coll, t) ELSE RLock_full_query(coll, t)
        u == IF cls = "Lock" THEN Lock_release_update(coll, t) ELSE RLock_full_update(coll, t)
    IN
    /\ coll' = find_and_modify(coll, m, u)
    /\ freeSeen' = Observe(coll')
    /\ contended' = contended
    /\ holders' = holders \ {t}
    /\ IF cls = "Lock" \/ m
       THEN ReleaseReturns(p, ~m, sc, e)
       ELSE /\ pc' = [pc EXCEPT ![p] = "partial"]
            /\ scope' = [scope EXCEPT ![p] = IF sc THEN "exit" ELSE "none"]
            /\ exc' = [exc EXCEPT ![p] = e]
            /\ ret' = [ret EXCEPT ![p] = "none"]
            /\ UNCHANGED <<tr, net>>
    /\ UNCHANGED <<cls, objOf, cfg, localLock, blk, tmo, got, thr, stop, ownedBefore>>

\* lock.release() called from outside a scope
release(p) ==
    /\ pc[p] = "idle"
    /\ ReleaseBegin(p, FALSE, FALSE)
    /\ UNCHANGED jvars

\* The body of the with statement on the lock ends, raising (e) or not.
body_ends(p, e) ==
    /\ pc[p] = "body"
    /\ pc' = [pc EXCEPT ![p] = "exit"]
    /\ scope' = [scope EXCEPT ![p] = "exit"]
    /\ exc' = [exc EXCEPT ![p] = e]
    /\ ret' = [ret EXCEPT ![p] = "none"]
    /\ UNCHANGED <<coll, cls, objOf, cfg, localLock, blk, tmo, got, thr, stop, holders,
                   ownedBefore, freeSeen, contended, tr, net>>
    /\ UNCHANGED jvars

\* An __exit__ that releases only when the body did not raise.
exit_scope_unless_raised(p) ==
    /\ pc[p] = "exit"
    /\ IF exc[p]
       THEN /\ pc' = [pc EXCEPT ![p] = "idle"]
            /\ scope' = [scope EXCEPT ![p] = "none"]
            /\ exc' = [exc EXCEPT ![p] = FALSE]
            /\ ret' = [ret EXCEPT ![p] = "BodyError"]
            /\ UNCHANGED <<coll, cls, objOf, cfg, localLock, blk, tmo, got, thr, stop,
                           holders, ownedBefore, freeSeen, contended, tr, net>>
       ELSE ReleaseBegin(p, TRUE, FALSE)
    /\ UNCHANGED jvars

\* DocumentBaseLock.__exit__: self.release() is called, and False is
\* returned so that an exception of the body goes on.
exit_scope(p) ==
    /\ pc[p] = "exit"
    /\ ReleaseBegin(p, TRUE, exc[p])
    /\ UNCHANGED jvars

\* DocumentRLock._release: trying partial release
RLock_release_partial(p) ==
    /\ pc[p] = "partial"
    /\ LET t == objOf[p]
           m == RLock_partial_query(coll, t)
       IN /\ coll' = find_and_modify(coll, m, RLock_partial_update(coll, t))
          /\ freeSeen' = Observe(coll')
          /\ contended' = contended
          /\ ReleaseReturns(p, ~m, scope[p] = "exit", exc[p])
    /\ UNCHANGED <<cls, objOf, cfg, localLock, blk, tmo, got, thr, stop, holders, ownedBefore>>
    /\ UNCHANGED jvars

\* A force_release that asks for the caller's own token.
force_release_owned(p) ==
    /\ pc[p] = "idle"
    /\ coll' = find_and_modify(coll, OwnedBy(coll, objOf[p]),
                               Unset(coll[DocId], {LOCK_ID_FIELD, LOCK_COUNTER_FIELD}))
    /\ freeSeen' = Observe(coll')
    /\ contended' = contended
    /\ ret' = [ret EXCEPT ![p] = IF OwnedBy(coll, objOf[p]) THEN "ok" ELSE LockErrorRelease]
    /\ UNCHANGED <<cls, objOf, cfg, localLock, pc, blk, tmo, got, thr, stop, scope, exc,
                   holders, ownedBefore, tr>>
    /\ net' = NetDropped
    /\ UNCHANGED jvars

\* DocumentBaseLock.force_release
force_release(p) ==
    /\ pc[p] = "idle"
    /\ coll' = find_and_modify(coll, Exists(coll),
                               Unset(coll[DocId], {LOCK_ID_FIELD, LOCK_COUNTER_FIELD}))
    /\ freeSeen' = Observe(coll')
    /\ contended' = contended
    /\ ret' = [ret EXCEPT ![p] = "ok"]
    /\ UNCHANGED <<cls, objOf, cfg, localLock, pc, blk, tmo, got, thr, stop, scope, exc,
                   holders, ownedBefore, tr>>
    /\ net' = NetDropped
    /\ UNCHANGED jvars

\* ----------------------------------------------------------- store failures

\* acquire(blocking=False): find_and_modify raises; the exception leaves the
\* with statement through acquire_timeout, whose generator is not resumed
\* after its yield, and acquire raises it.
try_once_fails(p) ==
    /\ pc[p] = "try1"
    /\ got' = [got EXCEPT ![p] = FALSE]
    /\ pc' = [pc EXCEPT ![p] = "idle"]
    /\ scope' = [scope EXCEPT ![p] = "none"]
    /\ ret' = [ret EXCEPT ![p] = "StoreError"]
    /\ ownedBefore' = [ownedBefore EXCEPT ![p] = FALSE]
    /\ contended' = [contended EXCEPT ![p] = FALSE]
    /\ tmo' = [tmo EXCEPT ![p] = -1]
    /\ UNCHANGED <<coll, cls, objOf, cfg, localLock, blk, thr, stop, exc, holders,
                   freeSeen, tr>>
    /\ net' = NetDropped
    /\ UNCHANGED jvars

\* try_to_acquire: find_and_modify raises, which ends the thread
thread_try_fails(p) ==
    /\ thr[p] = "try"
    /\ thr' = [thr EXCEPT ![p] = "crashed"]
    /\ UNCHANGED <<coll, cls, objOf, cfg, localLock, pc, blk, tmo, got, stop, scope, exc,
                   ret, holders, ownedBefore, freeSeen, contended, tr>>
    /\ net' = NetDropped
    /\ UNCHANGED jvars

\* ----------------------------------------------------------- specifications

Next ==
    \/ \E p \in Procs, b \in BOOLEAN, t \in Timeouts : acquire(p, b, t)
    \/ \E p \in Procs : enter(p)
    \/ \E p \in Procs : try_once(p)
    \/ \E p \in Procs : thread_check(p)
    \/ \E p \in Procs : thread_try(p)
    \/ \E p \in Procs : join_done(p)
    \/ \E p \in Procs : join_timeout(p)
    \/ \E p \in Procs : join_stopped(p)
    \/ \E p \in Procs : release(p)
    \/ \E p \in Procs, e \in BOOLEAN : body_ends(p, e)
    \/ \E p \in Procs : exit_scope(p)
    \/ \E p \in Procs : RLock_release_partial(p)

\* Every caller has a lock object of its own, which it acquires, releases
\* and uses as a scope; the store answers every conditional update.  (The
\* local lock of an object is then free whenever its caller calls acquire.)
Spec == Init /\ [][Next]_vars

NextForce ==
    \/ Next
    \/ \E p \in Procs : force_release(p)

\* As Spec, and any caller may call force_release.
SpecForce == Init /\ [][NextForce]_vars

NextFail ==
    \/ Next
    \/ \E p \in Procs : try_once_fails(p)
    \/ \E p \in Procs : thread_try_fails(p)
    \/ \E p \in Procs : acquire_timeout_failed(p)

\* As Spec, and a conditional update of acquire may raise a store error
\* (after which the caller may find the local lock of its object held).
SpecFail == Init /\ [][NextFail]_vars

\* The retry thread is scheduled: its loop test and its attempt are made
\* when they can be, and a join whose thread has ended returns.
Fairness ==
    \A p \in Procs :
        /\ WF_vars(thread_check(p))
        /\ WF_vars(thread_try(p))
        /\ WF_vars(join_done(p))

SpecLive == Init /\ [][Next]_vars /\ Fairness

\* Several threads use one lock object: they call acquire with any
\* arguments, and a thread whose acquire has returned true calls release.
InitShared ==
    /\ coll = [i \in {DocId} |-> [f \in {PAYLOAD_FIELD} |-> 0]]
    /\ cls \in {"Lock", "RLock"}
    /\ objOf = [p \in Procs |-> 1]
    /\ cfg = [o \in Objs |-> <<TRUE, -1>>]
    /\ localLock = [o \in Objs |-> FALSE]
    /\ pc = [p \in Procs |-> "idle"]
    /\ blk = [p \in Procs |-> TRUE]
    /\ tmo = [p \in Procs |-> -1]
    /\ got = [p \in Procs |-> FALSE]
    /\ thr = [p \in Procs |-> "none"]
    /\ stop = [p \in Procs |-> FALSE]
    /\ scope = [p \in Procs |-> "none"]
    /\ exc = [p \in Procs |-> FALSE]
    /\ ret = [p \in Procs |-> "none"]
    /\ holders = {}
    /\ ownedBefore = [p \in Procs |-> FALSE]
    /\ freeSeen = [p \in Procs |-> FALSE]
    /\ contended = [p \in Procs |-> FALSE]
    /\ tr = [p \in Procs |-> <<0, 0>>]
    /\ net = [p \in Procs |-> 0]
    /\ JobInitVars

\* lock.release() by a thread whose last call was an acquire that returned
\* true
release_acquired(p) ==
    /\ ret[p] = "True"
    /\ release(p)

NextShared ==
    \/ \E p \in Procs, b \in BOOLEAN, t \in Timeouts : acquire(p, b, t)
    \/ \E p \in Procs : acquire_timeout_got(p)
    \/ \E p \in Procs : acquire_timeout_failed(p)
    \/ \E p \in Procs : try_once(p)
    \/ \E p \in Procs : thread_check(p)
    \/ \E p \in Procs : thread_try(p)
    \/ \E p \in Procs : join_done(p)
    \/ \E p \in Procs : join_timeout(p)
    \/ \E p \in Procs : join_stopped(p)
    \/ \E p \in Procs : release_acquired(p)
    \/ \E p \in Procs : RLock_release_partial(p)

SpecShared == InitShared /\ [][NextShared]_vars

\* ------------------------------------------------- the job's store updates

\* bound: calls of open() a job object makes
MaxOpens == 2

JOB_ERROR_KEY == "error"
EXECUTING_FIELD == "executing"
PULSE_FIELD == "pulse"

\* The update documents the job hands to the driver.  A dict is
\* [type |-> "dict", op, field, key, value]: operator op on field, or on
\* field.key when key is not "".
Dict(op, f, k, v) == [type |-> "dict", op |-> op, field |-> f, key |-> k, value |-> v]
\* (x,): a tuple of one item
Tuple1(x) == [type |-> "tuple", items |-> <<x>>]
IsMapping(u) == u.type = "dict"

\* A sub-document: a function from its keys to their values
EmptyDoc == [k \in {} |-> 0]
SubDoc(d, f) == IF f \in DOMAIN d THEN d[f] ELSE EmptyDoc
List(d, f) == IF f \in DOMAIN d THEN d[f] ELSE <<>>

\* What the store makes of document d under update u ('$setOnInsert' acts
\* on an insert only, see Upsert).
Apply(d, u) ==
    CASE u.op = "$push" -> Set(d, u.field, Append(List(d, u.field), u.value))
      [] u.op = "$pull" ->
            IF u.field \in DOMAIN d
            THEN Set(d, u.field, SelectSeq(d[u.field], LAMBDA x : x # u.value))
            ELSE d
      [] u.op = "$set" -> Set(d, u.field, Set(SubDoc(d, u.field), u.key, u.value))
      [] u.op = "$unset" ->
            IF u.field \in DOMAIN d
            THEN Set(d, u.field, Unset(d[u.field], {u.key}))
            ELSE d
      [] OTHER -> d

\* The document an upsert inserts: the filter's _id and the update's fields
Upsert(u) ==
    IF u.op = "$setOnInsert" THEN u.value ELSE Apply(EmptyDoc, u)

\* collection.update_one(filter, update, upsert) / collection.update(...) on
\* the job's id, for an update that is a mapping: the document is updated if
\* it exists, inserted if it does not and upsert is set.
update_one(c, u, upsert) ==
    IF Exists(c) THEN [c EXCEPT ![DocId] = Apply(c[DocId], u)]
    ELSE IF upsert THEN [i \in {DocId} |-> Upsert(u)]
    ELSE c

\* The driver raises TypeError for an update that is not a mapping, before
\* anything is sent to the store.
UpdateRaises(u) == ~IsMapping(u)

\* OnlineJob._make_doc / _register_online: '$setOnInsert' of the job document
RegisterUpdate == Dict("$setOnInsert", "", "", [f \in {PAYLOAD_FIELD} |-> 0])

\* OnlineJob._add_instance / _remove_instance of the instance with unique id p
AddInstanceUpdate(p) == Dict("$push", EXECUTING_FIELD, "", p)
RemoveInstanceUpdate(p) == Dict("$pull", EXECUTING_FIELD, "", p)

\* OnlineJob.__exit__: the error document pushed to JOB_ERROR_KEY
ErrorUpdate(p) == Dict("$push", JOB_ERROR_KEY, "", "err_type:err_value")

\* A pulse update that is the mapping itself.
PulseUpdate_mapping(p) == Dict("$set", PULSE_FIELD, p, "utcnow")

\* pulse_worker: update = {'$set': {'pulse.<unique_id>': datetime.utcnow()}},
\* with the comma that ends the line: a tuple holding the mapping
PulseUpdate(p) == Tuple1(Dict("$set", PULSE_FIELD, p, "utcnow"))

\* OnlineJob._stop_pulse: '$unset' of pulse.<unique_id>
PulseUnsetUpdate(p) == Dict("$unset", PULSE_FIELD, p, "")

\* OnlineJob._open_instances: the executing list, empty when the document or
\* the field is absent
open_instances(c) == IF Exists(c) THEN List(c[DocId], EXECUTING_FIELD) ELSE <<>>
num_open_instances(c) == Len(open_instances(c))

\* A _remove_instance that returns the length of executing in the document
\* as it was before the update.
remove_instance_result_before(c, p) == num_open_instances(c)

\* OnlineJob._remove_instance: what it returns, len(result['executing']) of
\* the document after the '$pull' (return_document AFTER / new = True)
remove_instance_result(c, p) ==
    num_open_instances(update_one(c, RemoveInstanceUpdate(p), FALSE))

\* the instance ids in the executing list, the keys of the pulse mapping,
\* and the error records
ExecutingIds(c) == {open_instances(c)[i] : i \in 1 .. Len(open_instances(c))}
PulseKeys(c) == IF Exists(c) THEN DOMAIN SubDoc(c[DocId], PULSE_FIELD) ELSE {}
Errors(c) == IF Exists(c) THEN List(c[DocId], JOB_ERROR_KEY) ELSE <<>>

\* ------------------------------------------------------------ the job

\* The job's lock is a DocumentLock that _get_lock constructs for each use
\* with the job's blocking and timeout.  The lock objects one job object
\* constructs one after the other are modelled by the one object objOf[p]:
\* each is used by a single with statement, so that its local lock is free,
\* and no query of DocumentLock matches on a token left by an earlier one
\* other than the release that follows the acquisition that set it.

\* the lock variables a step of the job's own code leaves alone
lockvars == <<cls, objOf, cfg, localLock, blk, tmo, got, thr, stop, holders,
              ownedBefore, contended, tr, net>>

\* The job object of p is in none of its methods and p is not in its scope.
Closed(p) ==
    /\ pc[p] = "idle"
    /\ \/ jpc[p] \in {"new", "close", "exit", "leaving", "removed"}
       \/ jpc[p] = "open" /\ ret[p] # "ok"

\* open() of p's job object has returned and p has not called close() or
\* left the scope since.
InScope(p) == jpc[p] = "open" /\ pc[p] = "idle" /\ ret[p] = "ok"

\* The body of a with statement on the job's lock ends, raising (e) or not.
JobBodyEnds(p, e) ==
    /\ pc' = [pc EXCEPT ![p] = "exit"]
    /\ scope' = [scope EXCEPT ![p] = "exit"]
    /\ exc' = [exc EXCEPT ![p] = e]
    /\ ret' = [ret EXCEPT ![p] = "none"]

\* OnlineJob.open, up to the construction of the lock: _get_lock registers
\* the job if this object has not done so.
job_open(p) ==
    /\ Closed(p)
    /\ nOpen[p] < MaxOpens
    /\ nOpen' = [nOpen EXCEPT ![p] = @ + 1]
    /\ jpc' = [jpc EXCEPT ![p] = "opening"]
    /\ registered' = [registered EXCEPT ![p] = TRUE]
    /\ coll' = IF registered[p] THEN coll ELSE update_one(coll, RegisterUpdate, TRUE)
    /\ UNCHANGED <<lockvars, pc, scope, exc, ret, freeSeen>>
    /\ UNCHANGED <<jerr, pulse, pstop, jobData, nUnset, stage2>>

\* OnlineJob.open: with self._get_lock(): the lock's __enter__
job_open_lock(p) ==
    /\ jpc[p] = "opening"
    /\ pc[p] = "idle"
    /\ jpc' = [jpc EXCEPT ![p] = "open"]
    /\ AcquireBegin(p, cfg[objOf[p]][1], cfg[objOf[p]][2], "enter")
    /\ UNCHANGED <<jerr, registered, pulse, pstop, nOpen, jobData, nUnset, stage2>>

\* An _open whose _start_pulse does not assert that there is no pulse.
job_open_body_noassert(p) ==
    /\ jpc[p] = "open"
    /\ pc[p] = "body"
    /\ jobData' = TRUE
    /\ pulse' = [pulse EXCEPT ![p] = "wait"]
    /\ pstop' = [pstop EXCEPT ![p] = FALSE]
    /\ coll' = update_one(coll, AddInstanceUpdate(p), FALSE)
    /\ JobBodyEnds(p, FALSE)
    /\ UNCHANGED <<lockvars, freeSeen, jpc, jerr, registered, nOpen, nUnset, stage2>>

\* OnlineJob._open under the lock: BaseJob._open creates the directories,
\* _start_pulse asserts that there is no pulse and starts the worker,
\* _add_instance pushes the unique id to executing.
job_open_body(p) ==
    /\ jpc[p] = "open"
    /\ pc[p] = "body"
    /\ jobData' = TRUE
    /\ IF pulse[p] # "none"
       THEN /\ JobBodyEnds(p, TRUE)
            /\ UNCHANGED <<coll, pulse, pstop>>
       ELSE /\ pulse' = [pulse EXCEPT ![p] = "wait"]
            /\ pstop' = [pstop EXCEPT ![p] = FALSE]
            /\ coll' = update_one(coll, AddInstanceUpdate(p), FALSE)
            /\ JobBodyEnds(p, FALSE)
    /\ UNCHANGED <<lockvars, freeSeen, jpc, jerr, registered, nOpen, nUnset, stage2>>

\* OnlineJob.close: with self._get_lock(): the lock's __enter__
job_close(p) ==
    /\ InScope(p)
    /\ jpc' = [jpc EXCEPT ![p] = "close"]
    /\ stage2' = [stage2 EXCEPT ![p] = FALSE]
    /\ AcquireBegin(p, cfg[objOf[p]][1], cfg[objOf[p]][2], "enter")
    /\ UNCHANGED <<jerr, registered, pulse, pstop, nOpen, jobData, nUnset>>

\* OnlineJob.close under the lock: self._close_stage_two()
job_close_body(p) ==
    /\ jpc[p] = "close"
    /\ pc[p] = "body"
    /\ stage2' = [stage2 EXCEPT ![p] = TRUE]
    /\ JobBodyEnds(p, FALSE)
    /\ UNCHANGED <<coll, lockvars, freeSeen, jpc, jerr, registered, pulse, pstop, nOpen,
                   jobData, nUnset>>

\* An __exit__ that does its work without taking the job's lock.
job_exit_unlocked(p, e) ==
    /\ InScope(p)
    /\ jpc' = [jpc EXCEPT ![p] = "exit"]
    /\ jerr' = [jerr EXCEPT ![p] = e]
    /\ stage2' = [stage2 EXCEPT ![p] = FALSE]
    /\ pc' = [pc EXCEPT ![p] = "body"]
    /\ scope' = [scope EXCEPT ![p] = "body"]
    /\ ret' = [ret EXCEPT ![p] = "none"]
    /\ UNCHANGED <<coll, lockvars, exc, freeSeen>>
    /\ UNCHANGED <<registered, pulse, pstop, nOpen, jobData, nUnset>>

\* The body of the job's scope ends, raising (e) or not: OnlineJob.__exit__,
\* with self._get_lock(): the lock's __enter__
job_exit(p, e) ==
    /\ InScope(p)
    /\ jpc' = [jpc EXCEPT ![p] = "exit"]
    /\ jerr' = [jerr EXCEPT ![p] = e]
    /\ stage2' = [stage2 EXCEPT ![p] = FALSE]
    /\ AcquireBegin(p, cfg[objOf[p]][1], cfg[objOf[p]][2], "enter")
    /\ UNCHANGED <<registered, pulse, pstop, nOpen, jobData, nUnset>>

\* OnlineJob.__exit__ under the lock: the error document is pushed if the
\* body raised; then _close_stage_one, whose _stop_pulse sets the stop event
\* of a pulse there is.
job_exit_body(p) ==
    /\ jpc[p] = "exit"
    /\ pc[p] = "body"
    /\ coll' = IF jerr[p] THEN update_one(coll, ErrorUpdate(p), FALSE) ELSE coll
    /\ jpc' = [jpc EXCEPT ![p] = IF pulse[p] # "none" THEN "stopping" ELSE "removing"]
    /\ pstop' = [pstop EXCEPT ![p] = pulse[p] # "none"]
    /\ UNCHANGED <<lockvars, pc, scope, exc, ret, freeSeen>>
    /\ UNCHANGED <<jerr, registered, pulse, nOpen, jobData, nUnset, stage2>>

\* self._pulse.is_alive(): the worker of p's job object runs.
PulseAlive(p) == pulse[p] = "wait"

\* A _stop_pulse that unsets the pulse entry without waiting for the worker.
job_stop_pulse_nowait(p) ==
    /\ jpc[p] = "stopping"
    /\ pc[p] = "body"
    /\ coll' = update_one(coll, PulseUnsetUpdate(p), FALSE)
    /\ pulse' = [pulse EXCEPT ![p] = "none"]
    /\ pstop' = [pstop EXCEPT ![p] = FALSE]
    /\ nUnset' = [nUnset EXCEPT ![p] = @ + 1]
    /\ jpc' = [jpc EXCEPT ![p] = "removing"]
    /\ UNCHANGED <<lockvars, pc, scope, exc, ret, freeSeen>>
    /\ UNCHANGED <<jerr, registered, nOpen, jobData, stage2>>

\* OnlineJob._stop_pulse: self._pulse.join(2 * PULSE_PERIOD) returns with the
\* worker ended (a worker that is waiting on the stop event ends when it is
\* set), the pulse entry is unset, self._pulse becomes None.
job_stop_pulse(p) ==
    /\ jpc[p] = "stopping"
    /\ pc[p] = "body"
    /\ ~PulseAlive(p)
    /\ coll' = update_one(coll, PulseUnsetUpdate(p), FALSE)
    /\ pulse' = [pulse EXCEPT ![p] = "none"]
    /\ pstop' = [pstop EXCEPT ![p] = FALSE]
    /\ nUnset' = [nUnset EXCEPT ![p] = @ + 1]
    /\ jpc' = [jpc EXCEPT ![p] = "removing"]
    /\ UNCHANGED <<lockvars, pc, scope, exc, ret, freeSeen>>
    /\ UNCHANGED <<jerr, registered, nOpen, jobData, stage2>>

\* OnlineJob._stop_pulse: self._pulse.join(2 * PULSE_PERIOD) returns after
\* its timeout while the worker has not ended yet; the assert raises
\* AssertionError, which leaves _close_stage_one and the with statement of
\* __exit__; the pulse entry and self._pulse stay as they are.
job_stop_pulse_alive(p) ==
    /\ jpc[p] = "stopping"
    /\ pc[p] = "body"
    /\ PulseAlive(p)
    /\ jpc' = [jpc EXCEPT ![p] = "leaving"]
    /\ JobBodyEnds(p, TRUE)
    /\ UNCHANGED <<coll, lockvars, freeSeen, jerr, registered, pulse, pstop, nOpen,
                   jobData, nUnset, stage2>>

\* A scope exit that runs _close_stage_two whether the body raised or not.
job_remove_instance_stage_two(p) ==
    LET raises == ~Exists(coll) \/ EXECUTING_FIELD \notin DOMAIN coll[DocId]
    IN
    /\ jpc[p] = "removing"
    /\ pc[p] = "body"
    /\ coll' = update_one(coll, RemoveInstanceUpdate(p), FALSE)
    /\ stage2' = [stage2 EXCEPT ![p] = ~raises]
    /\ jpc' = [jpc EXCEPT ![p] = "leaving"]
    /\ JobBodyEnds(p, raises)
    /\ UNCHANGED <<lockvars, freeSeen, jerr, registered, pulse, pstop, nOpen, jobData,
                   nUnset>>

\* OnlineJob._remove_instance pulls the unique id from executing and takes
\* len(result['executing']), which raises when there is no document or no
\* such field; then, if the body did not raise, _close_stage_two.
job_remove_instance(p) ==
    LET raises == ~Exists(coll) \/ EXECUTING_FIELD \notin DOMAIN coll[DocId]
    IN
    /\ jpc[p] = "removing"
    /\ pc[p] = "body"
    /\ coll' = update_one(coll, RemoveInstanceUpdate(p), FALSE)
    /\ stage2' = [stage2 EXCEPT ![p] = ~raises /\ ~jerr[p]]
    /\ jpc' = [jpc EXCEPT ![p] = "leaving"]
    /\ JobBodyEnds(p, raises)
    /\ UNCHANGED <<lockvars, freeSeen, jerr, registered, pulse, pstop, nOpen, jobData,
                   nUnset>>

\* pulse_worker: stop_event.wait(timeout = PULSE_PERIOD) returns False after
\* the period; the update is made with upsert = True.
pulse_beat(p) ==
    /\ pulse[p] = "wait"
    /\ ~pstop[p]
    /\ IF UpdateRaises(PulseUpdate(p))
       THEN /\ pulse' = [pulse EXCEPT ![p] = "crashed"]
            /\ coll' = coll
       ELSE /\ coll' = update_one(coll, PulseUpdate(p), TRUE)
            /\ pulse' = pulse
    /\ UNCHANGED <<lockvars, pc, scope, exc, ret, freeSeen>>
    /\ UNCHANGED <<jpc, jerr, registered, pstop, nOpen, jobData, nUnset, stage2>>

\* pulse_worker: stop_event.wait(...) returns True: return
pulse_stops(p) ==
    /\ pulse[p] = "wait"
    /\ pstop[p]
    /\ pulse' = [pulse EXCEPT ![p] = "done"]
    /\ UNCHANGED <<coll, lockvars, pc, scope, exc, ret, freeSeen>>
    /\ UNCHANGED <<jpc, jerr, registered, pstop, nOpen, jobData, nUnset, stage2>>

\* How the scope exit of p's job has ended: with the exception of the lock's
\* with statement if it raised one; otherwise __exit__ returns False (or
\* None) and the exception of the job's body, if any, goes on.
JobExitOutcome(p) ==
    IF ret[p] # "ok" THEN ret[p] ELSE IF jerr[p] THEN "JobBodyError" ELSE "ok"

\* the jobs collection without the job's document
NoDocument == [i \in {} |-> EmptyDoc]

\* OnlineJob._remove: the job's files and documents are removed, then
\* delete_one removes the job document.
Removed(p) ==
    /\ coll' = NoDocument
    /\ jobData' = FALSE
    /\ ret' = [ret EXCEPT ![p] = "removed"]
    /\ jpc' = [jpc EXCEPT ![p] = "removed"]
    /\ freeSeen' = Observe(coll')

\* A remove that does not look at the open instances.
job_remove_unchecked(p, force) ==
    /\ Closed(p)
    /\ Removed(p)
    /\ UNCHANGED <<lockvars, pc, scope, exc>>
    /\ UNCHANGED <<jerr, registered, pulse, pstop, nOpen, nUnset, stage2>>

\* OnlineJob.remove(force): without force, RuntimeError is raised when
\* num_open_instances() is not 0; _remove is called otherwise, at once
\* with force, after the look at the open instances without.
job_remove(p, force) ==
    /\ Closed(p)
    /\ IF ~force /\ num_open_instances(coll) # 0
       THEN /\ ret' = [ret EXCEPT ![p] = "RuntimeError"]
            /\ UNCHANGED <<coll, jobData, jpc, freeSeen>>
       ELSE IF force
       THEN Removed(p)
       ELSE /\ jpc' = [jpc EXCEPT ![p] = "remove"]
            /\ ret' = [ret EXCEPT ![p] = "none"]
            /\ UNCHANGED <<coll, jobData, freeSeen>>
    /\ UNCHANGED <<lockvars, pc, scope, exc>>
    /\ UNCHANGED <<jerr, registered, pulse, pstop, nOpen, nUnset, stage2>>

\* OnlineJob.remove(force = False) after its look at the open instances:
\* self._remove()
job_remove_delete(p) ==
    /\ jpc[p] = "remove"
    /\ Removed(p)
    /\ UNCHANGED <<lockvars, pc, scope, exc>>
    /\ UNCHANGED <<jerr, registered, pulse, pstop, nOpen, nUnset, stage2>>

\* Job objects constructed for a job id that has no document yet
JobInitAny ==
    /\ coll = NoDocument
    /\ cls = "Lock"
    /\ objOf = [p \in Procs |-> p]
    /\ cfg \in [Objs -> Cfgs]
    /\ localLock = [o \in Objs |-> FALSE]
    /\ pc = [p \in Procs |-> "idle"]
    /\ blk = [p \in Procs |-> TRUE]
    /\ tmo = [p \in Procs |-> -1]
    /\ got = [p \in Procs |-> FALSE]
    /\ thr = [p \in Procs |-> "none"]
    /\ stop = [p \in Procs |-> FALSE]
    /\ scope = [p \in Procs |-> "none"]
    /\ exc = [p \in Procs |-> FALSE]
    /\ ret = [p \in Procs |-> "none"]
    /\ holders = {}
    /\ ownedBefore = [p \in Procs |-> FALSE]
    /\ freeSeen = [p \in Procs |-> FALSE]
    /\ contended = [p \in Procs |-> FALSE]
    /\ tr = [p \in Procs |-> <<0, 0>>]
    /\ net = [p \in Procs |-> 0]
    /\ JobInitVars

\* The job objects of one run are constructed with the same blocking and
\* timeout arguments.
JobInit == JobInitAny /\ \A o \in Objs : cfg[o] = cfg[1]

JobNext ==
    \/ \E p \in Procs : job_open(p)
    \/ \E p \in Procs : job_open_lock(p)
    \/ \E p \in Procs : job_open_body(p)
    \/ \E p \in Procs : job_close(p)
    \/ \E p \in Procs : job_close_body(p)
    \/ \E p \in Procs, e \in BOOLEAN : job_exit(p, e)
    \/ \E p \in Procs : job_exit_body(p)
    \/ \E p \in Procs : job_stop_pulse(p)
    \/ \E p \in Procs : job_remove_instance(p)
    \/ \E p \in Procs : pulse_beat(p)
    \/ \E p \in Procs : pulse_stops(p)
    \/ \E p \in Procs : try_once(p)
    \/ \E p \in Procs : thread_check(p)
    \/ \E p \in Procs : thread_try(p)
    \/ \E p \in Procs : join_done(p)
    \/ \E p \in Procs : join_timeout(p)
    \/ \E p \in Procs : join_stopped(p)
    \/ \E p \in Procs : exit_scope(p)

JobSpec == JobInit /\ [][JobNext]_vars

\* The runs of JobSpec and those in which a join of _stop_pulse times out
\* before the worker has ended.
JobNextJoin ==
    \/ JobNext
    \/ \E p \in Procs : job_stop_pulse_alive(p)

JobSpecJoin == JobInit /\ [][JobNextJoin]_vars

JobNextRemove ==
    \/ JobNext
    \/ \E p \in Procs, force \in BOOLEAN : job_remove(p, force)
    \/ \E p \in Procs : job_remove_delete(p)

\* The first job object is constructed with the defaults, blocking = True
\* and timeout = -1, the others with any blocking and timeout arguments;
\* remove does not use the lock.
JobInitDefault == JobInitAny /\ cfg[1] = <<TRUE, -1>>

JobSpecRemove == JobInitDefault /\ [][JobNextRemove]_vars

\* ------------------------------------------- the locks on other documents

\* A job document as open() and a scope exit with a raising body leave it
JobDoc ==
    [f \in {PAYLOAD_FIELD, EXECUTING_FIELD, PULSE_FIELD, JOB_ERROR_KEY} |->
        CASE f = PAYLOAD_FIELD -> 0
          [] f = EXECUTING_FIELD -> <<1>>
          [] f = PULSE_FIELD -> [k \in {1} |-> "utcnow"]
          [] f = JOB_ERROR_KEY -> <<"err_type:err_value">>]

\* The locks take the collection and the id of any document: here no
\* document, a job document, and a document that has, besides the fields
\* of that, a field named lock_level.
InitFrame ==
    /\ \/ coll = NoDocument
       \/ coll = [i \in {DocId} |-> JobDoc]
       \/ coll = [i \in {DocId} |-> Set(JobDoc, "lock_level", 0)]
    /\ cls \in {"Lock", "RLock"}
    /\ objOf = [p \in Procs |-> p]
    /\ cfg \in {[o \in Objs |-> c] : c \in Cfgs}
    /\ localLock = [o \in Objs |-> FALSE]
    /\ pc = [p \in Procs |-> "idle"]
    /\ blk = [p \in Procs |-> TRUE]
    /\ tmo = [p \in Procs |-> -1]
    /\ got = [p \in Procs |-> FALSE]
    /\ thr = [p \in Procs |-> "none"]
    /\ stop = [p \in Procs |-> FALSE]
    /\ scope = [p \in Procs |-> "none"]
    /\ exc = [p \in Procs |-> FALSE]
    /\ ret = [p \in Procs |-> "none"]
    /\ holders = {}
    /\ ownedBefore = [p \in Procs |-> FALSE]
    /\ freeSeen = [p \in Procs |-> FALSE]
    /\ contended = [p \in Procs |-> FALSE]
    /\ tr = [p \in Procs |-> <<0, 0>>]
    /\ net = [p \in Procs |-> 0]
    /\ JobInitVars

SpecFrame == InitFrame /\ [][Next]_vars

\* ------------------------------------------------------------------ claims

\* Every caller has its own lock object, so the tokens are distinct.
DistinctTokens == \A p, q \in Procs : p # q => objOf[p] # objOf[q]

\* C1: with DocumentLock objects of distinct tokens on one document, at most
\* one object is a holder (its acquire returned true and it has not called
\* release since) at any time, and a holder's token is the one in the document.
C1_MutualExclusion ==
    cls = "Lock" /\ DistinctTokens =>
        /\ Cardinality(holders) <= 1
        /\ \A o \in holders : OwnedBy(coll, o)

\* C1 witness: object 1 has released normally and object 2, whose acquire
\* returned true afterwards, is the one holder.
C1_Witness ==
    /\ cls = "Lock"
    /\ ret[1] = "ok"
    /\ ret[2] = "True"
    /\ holders = {2}
    /\ OwnedBy(coll, 2)

\* Caller p's acquire ends in this step, returning or raising.
AcquireEnds(p) == pc[p] \in AcqPcs /\ pc'[p] \notin AcqPcs

\* Caller p's acquire returns false in this step (to __enter__, which then raises).
ReturnsFalse(p) == AcquireEnds(p) /\ ret'[p] \in {"False", LockErrorEnter}

\* Caller p's acquire returns true in this step.
ReturnsTrue(p) == AcquireEnds(p) /\ ret'[p] = "True"

\* C2: when DocumentLock.acquire returns false, the document does not have
\* the caller's token once the call has returned, unless it had it before the call.
C2_FalseMeansNotAcquired ==
    [][\A p \in Procs :
         cls = "Lock" /\ ReturnsFalse(p) /\ OwnedBy(coll', objOf[p]) => ownedBefore[p]]_vars

\* C3: acquire returns true only if one of its conditional updates matched
\* and set the caller's token, and a store error of a conditional update ends
\* the call with that error.
C3_TrueOnlyIfMatched ==
    [][\A p \in Procs :
         /\ ReturnsTrue(p) =>
               \/ pc[p] = "join" /\ thr[p] = "acquired"
               \/ pc[p] = "try1" /\ AcquireQuery(coll, objOf[p]) /\ OwnedBy(coll', objOf[p])
         /\ AcquireEnds(p) /\ thr[p] = "crashed" => ret'[p] = "StoreError"]_vars

\* Caller p's release returns normally in this step.
ReleaseReturnsNormally(p) ==
    /\ pc'[p] = "idle"
    /\ ret'[p] \in {"ok", "BodyError"}
    /\ \/ pc[p] \in {"partial", "exit"}
       \/ release(p)

\* Caller p's release ends in this step, returning or raising.
ReleaseEnds(p) ==
    /\ pc'[p] = "idle"
    /\ \/ pc[p] \in {"partial", "exit"}
       \/ release(p)

\* C4: for a DocumentRLock, when the k-th release after k successful
\* acquisitions that began with the document unlocked returns, the document
\* is unlocked: the owner token is absent (so that another owner's acquire matches).
C4_KAcquiresKReleasesUnlock ==
    [][\A p \in Procs :
         cls = "RLock" /\ DistinctTokens /\ tr[p] # <<0, 1>> /\ tr'[p] = <<0, 1>>
            => ~HasOwner(coll') /\ \A q \in Procs : RLock_acquire_query(coll', objOf[q])]_vars

\* C5: for a DocumentRLock, after k successful acquisitions that began with
\* the document unlocked and k releases, one more release by the same object
\* raises DocumentLockError.
C5_ExtraReleaseRaises ==
    [][\A p \in Procs :
         cls = "RLock" /\ DistinctTokens /\ tr[p] = <<0, 1>> /\ ReleaseEnds(p)
            => ret'[p] = LockErrorRelease]_vars

\* C6: DocumentLock.release called while the document's owner token is not
\* the caller's (absent, or another object's) raises DocumentLockError and
\* leaves the document, every field of it, as it was.
C6_ReleaseByNonOwnerRaises ==
    [][\A p \in Procs :
         cls = "Lock" /\ ReleaseEnds(p) /\ ~OwnedBy(coll, objOf[p])
            => ret'[p] = LockErrorRelease /\ coll' = coll]_vars

\* C6 witness: a release has raised DocumentLockError while another object
\* held the lock, and that object's token is still in the document.
C6_Witness ==
    \E p \in Procs :
        /\ cls = "Lock"
        /\ pc[p] = "idle"
        /\ ret[p] = LockErrorRelease
        /\ HeldByOther(coll, objOf[p])
        /\ holders = Objs \ {objOf[p]}

\* C7: acquire(blocking=False) on an existing document is the call and one
\* conditional update, with no waiting and no retry thread: the call step
\* does not touch the store, and the next step of the caller makes the one
\* find_and_modify and returns, true with the owner token set to the caller's
\* when the token was absent, false with the document unchanged when another
\* token held the lock.
C7_NonBlockingOneAttempt ==
    /\ [](\A p \in Procs :
            pc[p] \in AcqPcs /\ ~blk[p] => pc[p] = "try1" /\ thr[p] = "none")
    /\ [][\A p \in Procs :
            /\ pc[p] = "idle" /\ pc'[p] \in AcqPcs /\ ~blk'[p] =>
                  pc'[p] = "try1" /\ coll' = coll
            /\ pc[p] = "try1" /\ pc'[p] # "try1" /\ Exists(coll) =>
                  /\ pc'[p] \notin AcqPcs
                  /\ thr'[p] = "none"
                  /\ ~HasOwner(coll) =>
                        ret'[p] = "True" /\ OwnedBy(coll', objOf[p])
                  /\ HeldByOther(coll, objOf[p]) =>
                        ret'[p] \in {"False", LockErrorEnter} /\ coll' = coll]_vars

\* C7 witness: two non-blocking calls have returned, one true and its token
\* is in the document, the other false.
C7_Witness ==
    \E p, q \in Procs :
        /\ ~blk[p] /\ pc[p] = "idle" /\ ret[p] = "True" /\ OwnedBy(coll, objOf[p])
        /\ ~blk[q] /\ pc[q] = "idle" /\ ret[q] = "False"

\* A step of caller p's blocking acquire, or of its retry thread
JoinStep(p) ==
    join_done(p) \/ join_timeout(p) \/ join_stopped(p) \/ thread_check(p) \/ thread_try(p)

\* C8: acquire(blocking=True, timeout=T), T >= 0, during which the lock is
\* held by another token all the time returns false without changing the
\* document; the call never hangs; and no retry thread is alive outside of
\* the acquire call that started it, so no conditional update of a call is
\* issued once the call has returned.
C8_TimedOutAcquireStopped ==
    /\ [](\A p \in Procs : pc[p] \notin {"join", "join2"} => ~Alive(thr[p]))
    /\ [](\A p \in Procs : pc[p] \in {"join", "join2"} /\ tmo[p] # -1 => ENABLED JoinStep(p))
    /\ [][\A p \in Procs :
            AcquireEnds(p) /\ blk[p] /\ tmo[p] # -1 /\ ~freeSeen[p] =>
               /\ ret'[p] \in {"False", LockErrorEnter}
               /\ thr'[p] = "none"
               /\ coll' = coll]_vars

\* C8 witness: a blocking acquire has returned false, another token held the
\* lock during all of the call and still holds it, and the caller's retry
\* thread is gone.
C8_Witness ==
    \E p \in Procs :
        /\ pc[p] = "idle" /\ blk[p] /\ ret[p] = "False" /\ ~freeSeen[p]
        /\ thr[p] = "none"
        /\ HeldByOther(coll, objOf[p])

\* The depth counter of the document in collection c
Depth(c) == c[DocId][LOCK_COUNTER_FIELD]

\* What a scope ends with when its release has not raised
ScopeResult(p) == IF exc[p] THEN "BodyError" ELSE "ok"

\* C9: __enter__ calls acquire with the blocking and timeout the lock was
\* constructed with; when acquire returns false it raises DocumentLockError,
\* the body does not run and nothing is released; when acquire returns true
\* the body runs, and when the body has ended, raising or not, the step that
\* leaves the scope makes the one release (DocumentLock: the token is unset;
\* DocumentRLock: the token is unset at depth 1, the depth is decreased by
\* one otherwise) and the scope ends with the body's exception if it raised one.
C9_ScopeAcquiresAndReleasesOnce ==
    /\ [](\A p \in Procs :
            scope[p] = "enter" =>
               /\ pc[p] \in AcqPcs
               /\ blk[p] = cfg[objOf[p]][1]
               /\ tmo[p] = cfg[objOf[p]][2])
    /\ [][\A p \in Procs :
            /\ pc[p] = "idle" /\ scope'[p] = "enter" => enter(p)
            /\ scope[p] = "enter" /\ AcquireEnds(p) =>
                  IF pc[p] = "join" \/ (pc[p] = "try1" /\ AcquireQuery(coll, objOf[p]))
                  THEN pc'[p] = "body" /\ scope'[p] = "body" /\ ret'[p] = "True"
                  ELSE /\ pc'[p] = "idle" /\ scope'[p] = "none"
                       /\ ret'[p] = LockErrorEnter
                       /\ coll' = coll
            /\ pc[p] = "body" /\ pc'[p] # "body" =>
                  pc'[p] = "exit" /\ scope'[p] = "exit" /\ coll' = coll
            /\ pc[p] = "exit" /\ pc'[p] # "exit" /\ cls = "Lock" =>
                  /\ OwnedBy(coll, objOf[p]) /\ ~HasOwner(coll')
                  /\ pc'[p] = "idle" /\ scope'[p] = "none"
                  /\ ret'[p] = ScopeResult(p)
            /\ pc[p] = "exit" /\ pc'[p] # "exit" /\ cls = "RLock" =>
                  /\ OwnedBy(coll, objOf[p])
                  /\ IF Depth(coll) = 1
                     THEN /\ ~HasOwner(coll')
                          /\ pc'[p] = "idle" /\ scope'[p] = "none"
                          /\ ret'[p] = ScopeResult(p)
                     ELSE /\ coll' = coll
                          /\ pc'[p] = "partial" /\ scope'[p] = "exit" /\ exc'[p] = exc[p]
            /\ pc[p] = "partial" /\ scope[p] = "exit" /\ pc'[p] # "partial" =>
                  /\ OwnedBy(coll, objOf[p]) /\ OwnedBy(coll', objOf[p])
                  /\ Depth(coll') = Depth(coll) - 1
                  /\ pc'[p] = "idle" /\ scope'[p] = "none"
                  /\ ret'[p] = ScopeResult(p)]_vars

\* C9 witness: a scope whose body raised has ended with the body's
\* exception and the lock is released, and the scope of another caller has
\* failed to enter.
C9_Witness ==
    \E p, q \in Procs :
        /\ cls = "Lock"
        /\ pc[p] = "idle" /\ ret[p] = "BodyError" /\ ~HasOwner(coll)
        /\ pc[q] = "idle" /\ ret[q] = LockErrorEnter

\* An acquire call that raises leaves the document, the local locks and the
\* threads as they were, and the caller where it was.
RaisesWithoutEffect(p, e) ==
    /\ ret'[p] = e
    /\ coll' = coll
    /\ localLock' = localLock /\ ~localLock'[objOf[p]]
    /\ thr' = thr
    /\ pc'[p] = "idle"

\* C10 as stated: acquire with blocking=False and a timeout raises
\* ValueError, and acquire with any timeout above TIMEOUT_MAX raises
\* OverflowError; neither issues a conditional update, changes the document
\* or leaves the local lock held.
C10_ArgumentErrors ==
    [][\A p \in Procs, b \in BOOLEAN, t \in Timeouts :
          acquire(p, b, t) =>
             /\ ~b /\ t # -1 => RaisesWithoutEffect(p, "ValueError")
             /\ t > TIMEOUT_MAX => RaisesWithoutEffect(p, "OverflowError")]_vars

\* C10 amended: acquire with blocking=False and a timeout, above TIMEOUT_MAX
\* or not, raises ValueError, and acquire with blocking=True and a timeout
\* above TIMEOUT_MAX raises OverflowError; neither issues a conditional
\* update, changes the document or leaves the local lock held.
C10_ArgumentErrorsBlocking ==
    [][\A p \in Procs, b \in BOOLEAN, t \in Timeouts :
          acquire(p, b, t) =>
             /\ ~b /\ t # -1 => RaisesWithoutEffect(p, "ValueError")
             /\ b /\ t > TIMEOUT_MAX => RaisesWithoutEffect(p, "OverflowError")]_vars

\* C10 witness: one call has raised ValueError and another OverflowError,
\* the local locks of both callers are free.
C10_Witness ==
    \E p, q \in Procs :
        /\ pc[p] = "idle" /\ ret[p] = "ValueError" /\ ~localLock[objOf[p]]
        /\ pc[q] = "idle" /\ ret[q] = "OverflowError" /\ ~localLock[objOf[q]]

\* C11: a blocking acquire with a negative timeout, -1 or another, waits
\* without bound: the call is accepted, and it ends only by returning true.
C11_NegativeTimeoutUnbounded ==
    [][\A p \in Procs, t \in Timeouts :
          /\ t < 0 /\ acquire(p, TRUE, t) => ret'[p] = "none" /\ pc'[p] \in AcqPcs
          /\ AcquireEnds(p) /\ blk[p] /\ tmo[p] < 0 => ret'[p] = "True"]_vars

\* Caller p is inside acquire(blocking=True, timeout=-1), joining its retry thread.
Pending(p) == pc[p] = "join" /\ blk[p] /\ tmo[p] = -1

\* C12: when acquire(blocking=True, timeout=-1) is pending while another
\* token holds the document, and from some time on no other token holds
\* it, the call eventually returns true; and such a call ends only by
\* returning true with the caller's token in the document.
C12_BlockingAcquireEventuallyTrue ==
    /\ \A p \in Procs :
          [](Pending(p) /\ HeldByOther(coll, objOf[p]) =>
                (<>[](~HeldByOther(coll, objOf[p])) =>
                    <>(~Pending(p) /\ ret[p] = "True")))
    /\ [][\A p \in Procs :
            AcquireEnds(p) /\ blk[p] /\ tmo[p] = -1 =>
               ret'[p] = "True" /\ OwnedBy(coll', objOf[p])]_vars

\* C12 witness: in a blocking acquire without timeout that was called while
\* another token held the document the retry thread has set the caller's
\* token, and the join is about to return.
C12_Witness ==
    \E p \in Procs :
        /\ Pending(p) /\ contended[p]
        /\ thr[p] = "acquired"
        /\ OwnedBy(coll, objOf[p])

\* ------------------------------------------------------------ job claims

\* Every job object has either not been opened or has had its last open()
\* followed by a close() that returned.
OpenClosePairs ==
    \A p \in Procs :
        \/ jpc[p] = "new"
        \/ jpc[p] = "close" /\ pc[p] = "idle" /\ ret[p] = "ok"

\* C13: when every successful open() has been followed by close() of the
\* same job object, num_open_instances() is 0.
C13_BalancedOpenCloseLeavesNoInstance ==
    OpenClosePairs => num_open_instances(coll) = 0

\* The scope exit of p's job completes in this step, returning or raising.
JobExitEnds(p) ==
    /\ jpc[p] \in {"exit", "leaving"}
    /\ pc[p] # "idle"
    /\ pc'[p] = "idle"

\* C14: no exit from an opened job scope completes with the instance id in
\* executing or with the instance's pulse worker running.
C14_ScopeExitTearsDown ==
    [][\A p \in Procs :
          JobExitEnds(p) => p \notin ExecutingIds(coll') /\ pulse'[p] # "wait"]_vars

C16_RemoveBusyRaises ==
    [][\A p \in Procs :
          num_open_instances(coll) # 0 /\ job_remove(p, FALSE) =>
             /\ ret'[p] = "RuntimeError"
             /\ coll' = coll
             /\ jobData' = jobData
             /\ jpc'[p] = jpc[p]]_vars

\* C16 witness: remove(force=False) has raised RuntimeError, the job
\* document with its open instance and the job's data are there.
C16_Witness ==
    \E p \in Procs :
        /\ ret[p] = "RuntimeError"
        /\ Closed(p)
        /\ num_open_instances(coll) # 0
        /\ jobData

\* C17: remove(force=True) returns normally and leaves no job document,
\* whatever the other job objects are doing, and a job document comes into
\* being only by the registration an open() makes.
C17_ForcedRemoveLeavesNoRecord ==
    [][/\ \A p \in Procs :
             Closed(p) /\ job_remove(p, TRUE) =>
                ~Exists(coll') /\ ret'[p] = "removed" /\ ~jobData'
       /\ ~Exists(coll) /\ Exists(coll') =>
             \E p \in Procs : job_open(p) /\ ~registered[p]]_vars

\* C17 witness: the job has been removed while another job object is in its
\* scope, and that object's pulse worker has made its update since it was
\* started; there is no job document.
C17_Witness ==
    \E p, q \in Procs :
        /\ jpc[p] = "removed" /\ ret[p] = "removed"
        /\ InScope(q) /\ pulse[q] = "crashed"
        /\ ~Exists(coll)


\* p's first open() has started the pulse and added p to executing, and p
\* has neither called close() nor left the scope since.
Proceeded(p) == jpc[p] = "open" /\ nOpen[p] = 1 /\ p \in ExecutingIds(coll)

\* p is inside the with statement of open(): past the lock's __enter__ and
\* before the return of its __exit__.
InOpenLocked(p) == jpc[p] = "open" /\ pc[p] \in {"body", "exit"}

\* C18 (as stated): when two processes open the same job concurrently, the
\* second does not start its pulse or add itself to executing until the first
\* has called close(): no two job objects have both proceeded past the lock of
\* their first open() without one of them having called close().
C18_SecondWaitsForClose ==
    \A p, q \in Procs : p # q => ~(Proceeded(p) /\ Proceeded(q))

\* C18 (amended): when two processes open the same job concurrently, at most
\* one at a time is past the lock of open(), it owns the lock document while
\* it is, and the pulse start and the addition to executing of an open() are
\* made in a step that starts with that job object owning the lock and no
\* other job object inside its open(): the second waits for the end of the
\* first's open(), not for its close().
C18_SecondWaitsForOpenToEnd ==
    /\ [](\A p, q \in Procs : p # q => ~(InOpenLocked(p) /\ InOpenLocked(q)))
    /\ [](\A p \in Procs : InOpenLocked(p) => OwnedBy(coll, objOf[p]))
    /\ [][\A p \in Procs :
            (pulse[p] # pulse'[p] /\ pulse'[p] = "wait") \/ (p \notin ExecutingIds(coll) /\ p \in ExecutingIds(coll')) =>
                /\ InOpenLocked(p) /\ OwnedBy(coll, objOf[p])
                /\ \A q \in Procs \ {p} : ~InOpenLocked(q)]_vars

\* C18 witness: the first opener is in its scope and has not called close();
\* the second, whose acquire found the lock held by the first, has since
\* started its pulse and added itself and is about to release the lock.
C18_Witness ==
    \E p, q \in Procs :
        /\ p # q
        /\ InScope(p) /\ Proceeded(p)
        /\ InOpenLocked(q) /\ pc[q] = "exit" /\ Proceeded(q)
        /\ contended[q]


\* Every job object has opened the job once as a scope and has left the
\* scope, and its __exit__ has returned or raised.
RunEnded ==
    \A p \in Procs : nOpen[p] = 1 /\ jpc[p] \in {"exit", "leaving"} /\ pc[p] = "idle"

\* C19: when every process has opened the same job as a scope and left the
\* scope, executing is empty, the job lock is free, the pulse mapping holds
\* no entry of an opener, and each opener has made exactly one
\* heartbeat-removal update.
C19_ScopedRunEndsClean ==
    RunEnded =>
        /\ ExecutingIds(coll) = {}
        /\ ~HasOwner(coll)
        /\ \A p \in Procs : p \notin PulseKeys(coll) /\ nUnset[p] = 1


\* C20: a pulse worker that has been started and not stopped writes
\* pulse[instance_id] whenever its period elapses and goes on running, so the
\* entry exists from the first period on while the instance is open; and when
\* _stop_pulse has stopped the pulse, the entry pulse[instance_id] is absent.
C20_HeartbeatWritesEveryPeriod ==
    [][\A p \in Procs :
          /\ pulse_beat(p) => p \in PulseKeys(coll') /\ pulse'[p] = "wait"
          /\ job_stop_pulse(p) => p \notin PulseKeys(coll')]_vars


\* occurrences of x in the sequence s
Count(s, x) == Cardinality({i \in 1 .. Len(s) : s[i] = x})

\* C21: _add_instance appends the instance id to executing once, so that the
\* length grows by one; _remove_instance removes, in one step, every
\* occurrence of the instance id, leaves the ids of the other instances as
\* they are, and returns the length of executing after the removal; a
\* remove that follows the add of the same instance returns one less than
\* the length after the add.
C21_InstanceRegistry ==
    [][\A p \in Procs :
          /\ job_open_body(p) /\ pulse[p] = "none" =>
                /\ open_instances(coll') = Append(open_instances(coll), p)
                /\ num_open_instances(coll') = num_open_instances(coll) + 1
                /\ remove_instance_result(coll', p) = num_open_instances(coll') - 1
          /\ job_remove_instance(p) =>
                /\ Count(open_instances(coll'), p) = 0
                /\ \A q \in Procs \ {p} :
                      Count(open_instances(coll'), q) = Count(open_instances(coll), q)
                /\ num_open_instances(coll') =
                      num_open_instances(coll) - Count(open_instances(coll), p)
                /\ remove_instance_result(coll, p) = num_open_instances(coll')]_vars

\* C21 witness: an instance has added itself and removed itself again while
\* another instance is in executing.
C21_Witness ==
    \E p, q \in Procs :
        /\ p # q
        /\ jpc[p] = "leaving" /\ nOpen[p] = 1 /\ p \notin ExecutingIds(coll)
        /\ q \in ExecutingIds(coll)


\* the fields of the document that are not the lock's, with their values
OtherFields(c) ==
    [f \in DOMAIN c[DocId] \ {LOCK_ID_FIELD, LOCK_COUNTER_FIELD} |-> c[DocId][f]]

\* C22: force_release, whatever lock object calls it and whether the
\* document is unlocked, held by the caller or held by another token at any
\* depth, leaves the owner token and the depth counter absent, does not
\* raise, and changes no other field of the document.
C22_ForceReleaseUnlocks ==
    [][\A p \in Procs :
          force_release(p) =>
             /\ ~HasOwner(coll') /\ ~HasCounter(coll')
             /\ ret'[p] = "ok"
             /\ Exists(coll') /\ OtherFields(coll') = OtherFields(coll)]_vars

\* C22 witness: the other lock object, which had acquired the reentrant lock
\* twice, is still a holder, and the document has neither owner token nor
\* depth counter after the caller's force_release.
C22_Witness ==
    \E p, q \in Procs :
        /\ p # q /\ cls = "RLock"
        /\ holders = {objOf[q]} /\ tr[q] = <<2, 0>> /\ ret[q] = "True" /\ pc[q] = "idle"
        /\ ret[p] = "ok" /\ pc[p] = "idle"
        /\ ~HasOwner(coll) /\ ~HasCounter(coll)


\* C23: for the reentrant lock, the depth counter is present only while the
\* owner token is present, and while the owner token is present the depth
\* counter is present and at least 1 (a full release unsets both).
C23_LockRecordInvariant ==
    cls = "RLock" =>
        /\ HasCounter(coll) => HasOwner(coll)
        /\ HasOwner(coll) => HasCounter(coll) /\ coll[DocId][LOCK_COUNTER_FIELD] >= 1


\* p is in the body of the with statement of acquire, where the conditional
\* updates are issued and retried.
InSection(p) == pc[p] \in {"try1", "join", "join2"}

\* C24: of the threads that share a lock object at most one at a time is in
\* the store-attempt section of acquire, whatever the blocking and timeout
\* arguments are, and a conditional update of acquire is issued only on
\* behalf of a caller that has obtained the object's local lock.
C24_LocalExclusion ==
    /\ [](\A p, q \in Procs :
            p # q /\ objOf[p] = objOf[q] => ~(InSection(p) /\ InSection(q)))
    /\ [][\A p \in Procs : try_once(p) \/ thread_try(p) => got[p]]_vars


\* C25: in open() the upsert of the job record, the start of the pulse and
\* the addition of the instance to executing are made, in that order, while
\* this open() owns the job lock, and the lock is released once, at the end
\* of open(), also when a step has failed.
C25_OpenHoldsLockAroundSequence ==
    [][\A p \in Procs :
          /\ registered'[p] /\ ~registered[p] =>
                InOpenLocked(p) /\ OwnedBy(coll, objOf[p])
          /\ (pulse'[p] = "wait" /\ pulse[p] # "wait") \/ Count(open_instances(coll'), p) > Count(open_instances(coll), p) =>
                InOpenLocked(p) /\ OwnedBy(coll, objOf[p]) /\ registered[p]
          /\ jpc[p] = "open" /\ pc[p] = "exit" /\ pc'[p] = "idle" =>
                OwnedBy(coll, objOf[p]) /\ ~HasOwner(coll')]_vars


\* p is between the acquisition and the release of the job's lock, in
\* open(), close() or a scope exit.
JobLocked(p) == jpc[p] # "new" /\ pc[p] \in {"body", "exit"}

\* The step is one of p's state transition steps on the job document: the
\* start or the stop of its pulse, the addition or the removal of its
\* instance.
TransitionStep(p) ==
    \/ pulse'[p] # pulse[p] /\ (pulse'[p] = "wait" \/ pulse'[p] = "none")
    \/ pstop'[p] # pstop[p]
    \/ Count(open_instances(coll'), p) # Count(open_instances(coll), p)

\* C26: with open() and scope exits of any instances of one job in any
\* interleaving (no force_release), at most one instance at a time is
\* between acquiring and releasing the job's lock, and it owns the lock
\* document; so every pulse-start / add-instance and pulse-stop /
\* remove-instance step of an instance is made while no other instance is
\* between acquiring and releasing.
C26_TransitionsExclusive ==
    /\ [](\A p, q \in Procs : p # q => ~(JobLocked(p) /\ JobLocked(q)))
    /\ [](\A p \in Procs : JobLocked(p) => OwnedBy(coll, objOf[p]))
    /\ [][\A p \in Procs :
            TransitionStep(p) =>
                JobLocked(p) /\ \A q \in Procs \ {p} : ~JobLocked(q) /\ ~JobLocked(q)']_vars

\* C26 witness: an instance is in the middle of its scope exit, its pulse
\* stopped and its id still in executing, while another instance, whose
\* open() found the lock held, waits for the lock.
C26_Witness ==
    \E p, q \in Procs :
        /\ p # q
        /\ jpc[p] = "removing" /\ pc[p] = "body" /\ p \in ExecutingIds(coll)
        /\ jpc[q] = "open" /\ pc[q] = "join" /\ contended[q]


\* C27: for the reentrant lock, while the owner token is set the depth
\* counter is the number of acquisitions the owning lock object has made
\* since the document was last unlocked minus the number of releases it has
\* made since; the first acquisition from an unlocked document sets it to 1.
C27_DepthCountsAcquisitions ==
    cls = "RLock" =>
        \A p \in Procs :
            OwnedBy(coll, objOf[p]) /\ tr[p][1] >= 1 =>
                HasCounter(coll) /\ coll[DocId][LOCK_COUNTER_FIELD] = tr[p][1] - tr[p][2]


\* Caller p's lock object has more acquires that returned true than releases
\* that returned.
HoldsMore(p) == net[p] > 0

\* C28: with DocumentRLock objects of distinct tokens on one document (no
\* force_release), a conditional update of acquire made while another token
\* owns the document does not match, an acquire that returns true leaves
\* the caller's token in the document, and at no time do two lock objects
\* both have more successful acquires than releases.
C28_ReentrantExclusive ==
    /\ [][\A p \in Procs :
            /\ cls = "RLock" /\ (try_once(p) \/ thread_try(p)) /\ HeldByOther(coll, objOf[p]) =>
                  coll' = coll /\ thr'[p] # "acquired" /\ ret'[p] # "True"
            /\ cls = "RLock" /\ ReturnsTrue(p) => OwnedBy(coll', objOf[p])]_vars
    /\ [](cls = "RLock" /\ DistinctTokens =>
            \A p, q \in Procs : p # q => ~(HoldsMore(p) /\ HoldsMore(q)))

\* C28 witness: one object has acquired twice, and the other's non-blocking
\* acquire, made while the first owned the document, has returned false.
C28_Witness ==
    \E p, q \in Procs :
        /\ p # q /\ cls = "RLock"
        /\ net[p] = 2 /\ OwnedBy(coll, objOf[p]) /\ pc[p] = "idle"
        /\ pc[q] = "idle" /\ ret[q] = "False" /\ ~blk[q] /\ net[q] = 0


\* all callers use one lock object
OneObject == \A p, q \in Procs : objOf[p] = objOf[q]

\* C29: when threads that share one DocumentRLock, each having acquired it,
\* release it concurrently, the depth counter is at least 1 while the owner
\* token is set, no release raises, and when every thread has made as many
\* releases as acquires the document is unlocked.
C29_SharedReleaseKeepsDepth ==
    cls = "RLock" /\ OneObject =>
        /\ HasOwner(coll) => HasCounter(coll) /\ Depth(coll) >= 1
        /\ \A p \in Procs : ret[p] # LockErrorRelease
        /\ (\A p \in Procs : pc[p] = "idle" /\ thr[p] = "none" /\ net[p] = 0) => ~HasOwner(coll)


\* C30: remove(force=False) deletes the job record and the job's files and
\* documents only at a moment when executing is empty, whatever open() calls
\* of other instances are interleaved with it.
C30_RemoveGuardUnderConcurrency ==
    [][\A p \in Procs :
          job_remove_delete(p) \/ (job_remove(p, FALSE) /\ ~Exists(coll') /\ Exists(coll)) =>
              num_open_instances(coll) = 0]_vars


\* C31: an open() called while the job has no record creates the record by
\* its upsert (and then goes on to take the lock of the record), also when
\* the job object was opened before and the record has been removed since.
C31_OpenCreatesMissingRecord ==
    [][\A p \in Procs : job_open(p) /\ ~Exists(coll) => Exists(coll')]_vars


\* _stop_pulse of p's job object ends in this step.
StopPulseEnds(p) == jpc[p] = "stopping" /\ jpc'[p] # "stopping"

\* C32: _stop_pulse unsets the pulse entry of its instance only when the
\* pulse worker has ended; a _stop_pulse that finds the worker alive after
\* the join ends with AssertionError and writes nothing.  So whenever
\* _stop_pulse has returned normally and no pulse has been started since,
\* no worker of the instance is left and its pulse entry is absent.
C32_UnsetAfterWorkerExit ==
    [][\A p \in Procs :
          /\ nUnset'[p] # nUnset[p] => ~PulseAlive(p) /\ pulse'[p] = "none"
          /\ StopPulseEnds(p) /\ PulseAlive(p) =>
                /\ exc'[p] /\ coll' = coll /\ nUnset'[p] = nUnset[p]
                /\ pulse'[p] = pulse[p]
          /\ pulse'[p] = "none" => p \notin PulseKeys(coll')]_vars

\* C32 witness: a _stop_pulse of instance 1 has returned normally after its
\* worker ended, and a _stop_pulse of instance 2 has failed on a worker that
\* was still alive, which has ended since.
C32_Witness ==
    /\ nUnset[1] > 0 /\ pulse[1] = "none" /\ jpc[1] = "removing"
    /\ nUnset[2] = 0 /\ pulse[2] = "done" /\ jpc[2] = "leaving"


\* The body of the with statement of p's open() ends in this step.
OpenBodyEnds(p) == jpc[p] = "open" /\ pc[p] = "body" /\ pc'[p] # "body"

\* p's open() has ended with the exception its body raised.
OpenFailed(p) == jpc[p] = "open" /\ pc[p] = "idle" /\ ret[p] = "BodyError"

\* C33: after any sequence of open, close and scope exit an instance has at
\* most one pulse worker: a worker is started only by an open() whose job
\* object has no pulse, and an open() of a job object that still has one
\* raises in its body without starting a worker or adding the instance, and
\* its lock is released when it has ended.
C33_OnePulsePerInstance ==
    /\ [][\A p \in Procs :
            /\ pulse'[p] # pulse[p] /\ pulse'[p] = "wait" =>
                  OpenBodyEnds(p) /\ pulse[p] = "none"
            /\ OpenBodyEnds(p) =>
                  IF pulse[p] = "none"
                  THEN ~exc'[p] /\ PulseAlive(p)'
                  ELSE /\ exc'[p]
                       /\ pulse'[p] = pulse[p]
                       /\ coll' = coll]_vars
    /\ [](\A p \in Procs : OpenFailed(p) => ~OwnedBy(coll, objOf[p]))

\* C33 witness: the second open() of instance 1, made after close() while
\* the pulse of the first was running, has failed; the worker of the first
\* still runs, the instance is once in executing and the lock is free.
C33_Witness ==
    /\ OpenFailed(1)
    /\ nOpen[1] = 2
    /\ PulseAlive(1)
    /\ Count(open_instances(coll), 1) = 1
    /\ ~HasOwner(coll)


\* C34: in every reachable state each instance id occurs at most once in the
\* executing list of the job document.
C34_InstanceIdOnce ==
    \A p \in Procs : Count(open_instances(coll), p) <= 1

\* C34 witness: instance 1 has left its first scope (its pulse was stopped
\* and its id pulled), has opened again and is in its second scope, and
\* executing holds the ids of both instances, each once.
C34_Witness ==
    /\ InScope(1)
    /\ nOpen[1] = 2
    /\ nUnset[1] = 1
    /\ Len(open_instances(coll)) = 2
    /\ Count(open_instances(coll), 1) = 1
    /\ Count(open_instances(coll), 2) = 1


\* s is an initial part of t
IsPrefix(s, t) == Len(s) <= Len(t) /\ \A i \in 1 .. Len(s) : s[i] = t[i]

\* The part of C35 on the records there are: no step (of a lock operation,
\* open, close or scope exit) removes, changes or moves a record of the
\* error sequence, and a step adds at most one.
RecordsKept ==
    [][Exists(coll) /\ Exists(coll') =>
          /\ IsPrefix(Errors(coll), Errors(coll'))
          /\ Len(Errors(coll')) <= Len(Errors(coll)) + 1]_vars

\* C35: the error sequence of the job document is append-only: every step
\* leaves the records there are as they are and in place; and the sequence
\* grows by one per scope exit whose body raised: when every job object has
\* opened the job once as a scope and has left the scope, the sequence has
\* as many records as there were bodies that raised.
C35_ErrorsAppendOnly ==
    /\ RecordsKept
    /\ [](RunEnded => Len(Errors(coll)) = Cardinality({p \in Procs : jerr[p]}))

\* C36: acquire and release of DocumentLock and DocumentRLock, called with
\* any arguments, directly or as a scope, on a document that exists or not,
\* change only the owner token and the depth counter of the document: no
\* step of theirs creates or removes the document or changes another field
\* of it (executing, pulse, the error sequence, the parameters or any
\* other); and on a document that does not exist no acquire returns true
\* and no scope is entered.
C36_LockFrame ==
    /\ [][/\ Exists(coll') = Exists(coll)
          /\ Exists(coll) => OtherFields(coll') = OtherFields(coll)]_vars
    /\ [](~Exists(coll) =>
             /\ holders = {}
             /\ \A p \in Procs : ret[p] # "True" /\ pc[p] # "body")


\* C37: the local lock of a lock object is held only on behalf of an acquire
\* call that is in progress: once every acquire call on the object has
\* returned or raised (a store error of the conditional update included),
\* the local lock is free, so that a later acquire on the object can take it.
C37_LocalLockReleased ==
    \A o \in Objs :
        localLock[o] => \E p \in Procs : objOf[p] = o /\ pc[p] \in AcqPcs /\ got[p]

====
